---- MODULE Spec2Model ----
(***************************************************************************)
(* Model of the temporal indexing layer of the crawler                     *)
(* (src/database/index.ts, class DB): a Primary Index `level` and a        *)
(* Change Index `changeIndex`, both ordered byte-string key-value stores.  *)
(*                                                                         *)
(* Strings are sequences of byte codes, so that the byte-wise key order of *)
(* the store and the code-unit order of JavaScript's string comparison are *)
(* computed, not assumed.                                                  *)
(***************************************************************************)
EXTENDS Integers, Sequences, FiniteSets, TLC

VARIABLES
  level,            \* DB.level: primary key -> stored value
  changeIndex,      \* DB.changeIndex: set of change keys (values are all "")
  op,               \* name of the call in progress / last completed
  args,             \* arguments of that call
  ret,              \* what the call returned (getMany: what the consumer collected)
  pc,               \* position of the getMany generator: "idle", "loop", "done"
  iter,             \* getMany: entries of the iterator not yet consumed
  lastId,           \* getMany: local `lastId`
  result,           \* getMany: local `result`
  tillBlockNumber,  \* getMany: local `tillBlockNumber`
  existed,          \* history: the last insert or del found its key in the Primary Index
  marked,           \* history: the last insert or del found its marker in the Change Index
  rbPc,             \* position of createChangeIndex: "idle", "loop", "done"
  rbIter,           \* createChangeIndex: primary keys of its iterator not yet consumed
  count,            \* createChangeIndex: local `count`
  rbOut,            \* createChangeIndex: what it returned and what it logged
  once,             \* history: the Change Index at the end of each run of a
                    \* succession of completed createChangeIndex runs
  base,             \* history: the two indexes when the first of a series of
                    \* createChangeIndex runs (interrupted ones included) started
  status,           \* whether each of the two store handles is "open" or "closed"
  calls             \* insert and del of concurrent callers, one store operation
                    \* at a time: caller -> the call it is in

rbVars == <<rbPc, rbIter, count, rbOut, once, base>>

extVars == <<status, calls>>

vars ==
  <<level, changeIndex, op, args, ret, pc, iter, lastId, result, tillBlockNumber,
    existed, marked, rbPc, rbIter, count, rbOut, once, base, status, calls>>

----------------------------------------------------------------------------
(* Bounds of the model *)

\* at most this many entries are stored in the Primary Index
MaxEntries == 3

\* at most this many createChangeIndex runs follow each other directly
MaxRuns == 2

----------------------------------------------------------------------------
(* Byte strings *)

Slash == 47      \* "/"
Tilde == 126     \* "~"

\* byte-wise lexicographic order (LevelDB key order, JS string <, <=),
\* deciding at the first position where the two strings differ
RECURSIVE LexLTFrom(_, _, _)
LexLTFrom(a, b, i) ==
  IF i > Len(b) THEN FALSE
  ELSE IF i > Len(a) THEN TRUE
  ELSE IF a[i] = b[i] THEN LexLTFrom(a, b, i + 1)
  ELSE a[i] < b[i]

LexLT(a, b) == LexLTFrom(a, b, 1)

LexLE(a, b) == a = b \/ LexLT(a, b)

\* value of a string of decimal digits (Number(num))
RECURSIVE NumVal(_)
NumVal(s) ==
  IF s = <<>> THEN 0
  ELSE 10 * NumVal(SubSeq(s, 1, Len(s) - 1)) + (s[Len(s)] - 48)

\* decimal digits of a natural number (Number.prototype.toString)
RECURSIVE NumToString(_)
NumToString(n) ==
  IF n < 10 THEN <<48 + n>>
  ELSE NumToString(n \div 10) \o <<48 + (n % 10)>>

\* String.prototype.split("/")
RECURSIVE SplitFrom(_, _, _)
SplitFrom(s, start, i) ==
  IF i > Len(s) THEN <<SubSeq(s, start, Len(s))>>
  ELSE IF s[i] = Slash
       THEN <<SubSeq(s, start, i - 1)>> \o SplitFrom(s, i + 1, i + 1)
       ELSE SplitFrom(s, start, i + 1)

Split(s) == SplitFrom(s, 1, 1)

\* element i of an array, the empty string standing for undefined
At(parts, i) == IF i <= Len(parts) THEN parts[i] ELSE <<>>

----------------------------------------------------------------------------
(* Data the calls are made with *)

S_1    == <<49>>                \* "1"
S_11   == <<49, 49>>            \* "11"
S_0xb  == <<48, 120, 98>>       \* "0xb"
S_0xb8 == <<48, 120, 98, 56>>   \* "0xb8"
S_9    == <<57>>                \* "9"
S_10   == <<49, 48>>            \* "10"
S_95   == <<57, 53>>            \* "95"
None   == <<>>                  \* an omitted (undefined) field

\* token "1" is a prefix of token "11", chain "1" of chain "11" and
\* address "0xb" of address "0xb8"
Identities ==
  { [chainId |-> S_1,  address |-> S_0xb8, tokenId |-> S_1],
    [chainId |-> S_1,  address |-> S_0xb8, tokenId |-> S_11],
    [chainId |-> S_11, address |-> S_0xb,  tokenId |-> S_1] }

BlockNumbers == {S_9, S_10, S_95}

Values == {"data", "updated-data"}

MkDatum(i, b) ==
  [chainId |-> i.chainId, address |-> i.address, tokenId |-> i.tokenId,
   blockNumber |-> b]

Datums == {MkDatum(i, b) : i \in Identities, b \in BlockNumbers}

\* arguments of getMany: chain only, or chain and address
Partials ==
  {MkDatum([chainId |-> i.chainId, address |-> a, tokenId |-> None], None) :
     i \in Identities, a \in {None} \cup {j.address : j \in Identities}}

NoDatum == MkDatum([chainId |-> None, address |-> None, tokenId |-> None], None)

----------------------------------------------------------------------------
(* Key Codec *)

MAX_LENGTH == 10

datumToKey(datum) ==
  datum.chainId \o <<Slash>> \o datum.address \o <<Slash>> \o datum.tokenId
    \o <<Slash>> \o datum.blockNumber

keyToDatum(id) ==
  LET parts == Split(id)
  IN  [chainId |-> At(parts, 1), address |-> At(parts, 2),
       tokenId |-> At(parts, 3), blockNumber |-> At(parts, 4)]

\* a block number left as it is, without padding
padStartNone(num) == num

\* padStart(MAX_LENGTH, "0"); the caller checks CanEncode first
RECURSIVE padStart(_)
padStart(num) == IF Len(num) >= MAX_LENGTH THEN num ELSE padStart(<<48>> \o num)

CanEncode(num) == Len(num) <= MAX_LENGTH

encodeNumber(num) == padStart(num)

\* Number(num) keeps every integer below 2^53 exactly. The value is held
\* here as two integers, the digits above the last five and the last five,
\* so that ten digits stay inside the integers of the checker.
HiPart(num) == IF Len(num) > 5 THEN SubSeq(num, 1, Len(num) - 5) ELSE <<>>

LoPart(num) == IF Len(num) > 5 THEN SubSeq(num, Len(num) - 4, Len(num)) ELSE num

RECURSIVE padLow(_)
padLow(s) == IF Len(s) >= 5 THEN s ELSE padLow(<<48>> \o s)

\* a decodeNumber that hands back the padded string
decodeNumberRaw(num) == num

\* Number(num).toString()
decodeNumber(num) ==
  LET hi == NumVal(HiPart(num))
      lo == NumVal(LoPart(num))
  IN  IF hi = 0 THEN NumToString(lo)
      ELSE NumToString(hi) \o padLow(NumToString(lo))

datumToChangeKey(datum) ==
  encodeNumber(datum.blockNumber) \o <<Slash>> \o datum.chainId \o <<Slash>>
    \o datum.address \o <<Slash>> \o datum.tokenId

----------------------------------------------------------------------------
(* The ordered store (level): range iteration, put *)

RECURSIVE SortKeys(_)
SortKeys(S) ==
  IF S = {} THEN <<>>
  ELSE LET m == CHOOSE k \in S : \A o \in S : LexLE(k, o)
       IN  <<m>> \o SortKeys(S \ {m})

\* keys of an iterator({gte, lte}), in ascending byte order
Iterator(keys, gte, lte) ==
  SortKeys({k \in keys : LexLE(gte, k) /\ LexLE(k, lte)})

\* a put that leaves an existing entry as it is
PutIfAbsent(store, key, value) ==
  [k \in DOMAIN store \cup {key} |-> IF k \in DOMAIN store THEN store[k] ELSE value]

Put(store, key, value) ==
  [k \in DOMAIN store \cup {key} |-> IF k = key THEN value ELSE store[k]]

----------------------------------------------------------------------------
(* State after construction: both stores empty, nothing called *)

\* createChangeIndex has neither returned nor logged anything
NoOut == [returned |-> <<>>, logged |-> <<>>]

NoArgs == [datum |-> NoDatum, data |-> "", from |-> None, to |-> None]

\* the callers that run insert and del beside each other
Callers == {"a", "b"}

NoCall == [op |-> "none", datum |-> NoDatum, data |-> "", pc |-> "idle", ok |-> TRUE]

BothOpen == [level |-> "open", changeIndex |-> "open"]

Init ==
  /\ level = <<>>
  /\ changeIndex = {}
  /\ op = "none"
  /\ args = NoArgs
  /\ ret = <<>>
  /\ pc = "idle"
  /\ iter = <<>>
  /\ lastId = NoDatum
  /\ result = [id |-> NoDatum, value |-> ""]
  /\ tillBlockNumber = None
  /\ existed = FALSE
  /\ marked = FALSE
  /\ rbPc = "idle"
  /\ rbIter = <<>>
  /\ count = 0
  /\ rbOut = NoOut
  /\ once = <<>>
  /\ base = <<>>
  /\ status = BothOpen
  /\ calls = [c \in Callers |-> NoCall]

\* a call starts only when the caller is not inside another call
Idle == op = "none"

ResetGen ==
  /\ pc' = "idle"
  /\ iter' = <<>>
  /\ lastId' = NoDatum
  /\ result' = [id |-> NoDatum, value |-> ""]
  /\ tillBlockNumber' = None

----------------------------------------------------------------------------
(* insert *)

\* an insert that writes the Primary Index only
InsertPrimaryOnly(datum, data) ==
  /\ Idle
  /\ \/ datumToKey(datum) \in DOMAIN level
     \/ Cardinality(DOMAIN level) < MaxEntries
  /\ level' = Put(level, datumToKey(datum), data)
  /\ changeIndex' = changeIndex
  /\ ret' = [ok |-> TRUE]
  /\ op' = "insert"
  /\ args' = [datum |-> datum, data |-> data, from |-> None, to |-> None]
  /\ existed' = (datumToKey(datum) \in DOMAIN level)
  /\ marked' = (datumToChangeKey(datum) \in changeIndex)
  /\ ResetGen
  /\ UNCHANGED rbVars
  /\ UNCHANGED extVars

Insert(datum, data) ==
  /\ Idle
  /\ \/ datumToKey(datum) \in DOMAIN level
     \/ Cardinality(DOMAIN level) < MaxEntries
  /\ level' = Put(level, datumToKey(datum), data)
  /\ IF CanEncode(datum.blockNumber)
     THEN /\ changeIndex' = changeIndex \cup {datumToChangeKey(datum)}
          /\ ret' = [ok |-> TRUE]
     ELSE /\ changeIndex' = changeIndex
          /\ ret' = [ok |-> FALSE]
  /\ op' = "insert"
  /\ args' = [datum |-> datum, data |-> data, from |-> None, to |-> None]
  /\ existed' = (datumToKey(datum) \in DOMAIN level)
  /\ marked' = (datumToChangeKey(datum) \in changeIndex)
  /\ ResetGen
  /\ UNCHANGED rbVars
  /\ UNCHANGED extVars

----------------------------------------------------------------------------
(* getOne *)

Reverse(s) == [i \in 1..Len(s) |-> s[Len(s) + 1 - i]]

\* the prefix of an identity without the separator that ends the tokenId
identityPrefixOpen(datum) ==
  datum.chainId \o <<Slash>> \o datum.address \o <<Slash>> \o datum.tokenId

identityPrefix(datum) ==
  datum.chainId \o <<Slash>> \o datum.address \o <<Slash>> \o datum.tokenId
    \o <<Slash>>

\* range of the scan with a cutoff: [c/a/t/ , c/a/t/blockNumber]
getOneRangeAt(datum) ==
  [gte |-> identityPrefix(datum),
   lte |-> identityPrefix(datum) \o datum.blockNumber]

\* range of the scan without a cutoff: [c/a/t/ , c/a/t/~]
getOneRangeLatest(datum) ==
  [gte |-> identityPrefix(datum),
   lte |-> identityPrefix(datum) \o <<Tilde>>]

NotFound == [ok |-> FALSE, code |-> "LEVEL_NOT_FOUND", id |-> NoDatum, value |-> ""]

Insufficient == [ok |-> FALSE, code |-> "INSUFFICIENT", id |-> NoDatum, value |-> ""]

\* iterator({gte, lte, reverse: true, limit: 1}): the greatest key of the range
firstReversed(store, range) ==
  LET found == Reverse(Iterator(DOMAIN store, range.gte, range.lte))
  IN  IF found = <<>> THEN NotFound
      ELSE [ok |-> TRUE, code |-> "", id |-> keyToDatum(found[1]),
            value |-> store[found[1]]]

getOne(store, datum) ==
  IF /\ datum.chainId # None /\ datum.address # None
     /\ datum.tokenId # None /\ datum.blockNumber # None
  THEN firstReversed(store, getOneRangeAt(datum))
  ELSE IF datum.chainId # None /\ datum.address # None /\ datum.tokenId # None
  THEN firstReversed(store, getOneRangeLatest(datum))
  ELSE Insufficient

GetOne(datum) ==
  /\ Idle
  /\ ret' = getOne(level, datum)
  /\ op' = "getOne"
  /\ args' = [datum |-> datum, data |-> "", from |-> None, to |-> None]
  /\ ResetGen
  /\ UNCHANGED rbVars
  /\ UNCHANGED extVars
  /\ UNCHANGED <<level, changeIndex, existed, marked>>

----------------------------------------------------------------------------
(* getMany: an async generator, one step per entry of the scan *)

\* String(Number.MAX_SAFE_INTEGER) = "9007199254740991"
MAX_SAFE_INTEGER ==
  <<57, 48, 48, 55, 49, 57, 57, 50, 53, 52, 55, 52, 48, 57, 57, 49>>

getManyTill(datum) ==
  IF datum.blockNumber # None THEN datum.blockNumber ELSE MAX_SAFE_INTEGER

getManyFilter(datum) ==
  IF datum.address # None
  THEN [gte |-> datum.chainId \o <<Slash>> \o datum.address \o <<Slash>>,
        lte |-> datum.chainId \o <<Slash>> \o datum.address \o <<Slash, Tilde>>]
  ELSE [gte |-> datum.chainId \o <<Slash>>,
        lte |-> datum.chainId \o <<Slash, Tilde>>]

\* the entries [key, value] an iterator over the store yields, in order
Entries(store, range) ==
  LET found == Iterator(DOMAIN store, range.gte, range.lte)
  IN  [i \in 1..Len(found) |-> <<found[i], store[found[i]]>>]

\* a group compared by its whole key, block number included
groupPrefixWholeKey(id) == datumToKey(id)

groupPrefix(id) ==
  id.chainId \o <<Slash>> \o id.address \o <<Slash>> \o id.tokenId

\* result.id.blockNumber <= tillBlockNumber, a comparison of two strings
\* a comparison that leaves out the cutoff itself
withinTillStrict(blockNumber, till) == LexLT(blockNumber, till)

withinTill(blockNumber, till) == LexLE(blockNumber, till)

\* a getMany that ends without a yield when the scan has no first entry
GetManyStartQuiet(datum) ==
  /\ Idle
  /\ op' = "getMany"
  /\ args' = [datum |-> datum, data |-> "", from |-> None, to |-> None]
  /\ UNCHANGED <<level, changeIndex, existed, marked>>
  /\ UNCHANGED rbVars
  /\ UNCHANGED extVars
  /\ LET found == Entries(level, getManyFilter(datum))
     IN  IF found = <<>>
         THEN /\ ret' = [ok |-> TRUE, code |-> "", out |-> <<>>]
              /\ pc' = "done"
              /\ iter' = <<>>
              /\ lastId' = NoDatum
              /\ result' = [id |-> NoDatum, value |-> ""]
              /\ tillBlockNumber' = None
         ELSE /\ ret' = [ok |-> TRUE, code |-> "", out |-> <<>>]
              /\ pc' = "loop"
              /\ iter' = Tail(found)
              /\ lastId' = keyToDatum(found[1][1])
              /\ result' = [id |-> keyToDatum(found[1][1]), value |-> found[1][2]]
              /\ tillBlockNumber' = getManyTill(datum)

\* lines 74-91: open the iterator, take the first entry or throw
GetManyStart(datum) ==
  /\ Idle
  /\ op' = "getMany"
  /\ args' = [datum |-> datum, data |-> "", from |-> None, to |-> None]
  /\ UNCHANGED <<level, changeIndex, existed, marked>>
  /\ UNCHANGED rbVars
  /\ UNCHANGED extVars
  /\ LET found == Entries(level, getManyFilter(datum))
     IN  IF found = <<>>
         THEN /\ ret' = [ok |-> FALSE, code |-> "NO_ITEMS", out |-> <<>>]
              /\ pc' = "done"
              /\ iter' = <<>>
              /\ lastId' = NoDatum
              /\ result' = [id |-> NoDatum, value |-> ""]
              /\ tillBlockNumber' = None
         ELSE /\ ret' = [ok |-> TRUE, code |-> "", out |-> <<>>]
              /\ pc' = "loop"
              /\ iter' = Tail(found)
              /\ lastId' = keyToDatum(found[1][1])
              /\ result' = [id |-> keyToDatum(found[1][1]), value |-> found[1][2]]
              /\ tillBlockNumber' = getManyTill(datum)

\* lines 93-105: one iteration of the for-await loop
GetManyLoop ==
  /\ pc = "loop"
  /\ iter # <<>>
  /\ LET id == keyToDatum(Head(iter)[1])
         value == Head(iter)[2]
     IN  /\ lastId' = id
         /\ IF groupPrefix(lastId) # groupPrefix(id)
            THEN /\ ret' = IF withinTill(result.id.blockNumber, tillBlockNumber)
                           THEN [ret EXCEPT !.out = Append(@, result)]
                           ELSE ret
                 /\ result' = [id |-> id, value |-> value]
            ELSE /\ ret' = ret
                 /\ result' = IF withinTill(id.blockNumber, tillBlockNumber)
                              THEN [id |-> id, value |-> value]
                              ELSE result
  /\ iter' = Tail(iter)
  /\ UNCHANGED <<level, changeIndex, op, args, pc, tillBlockNumber, existed, marked>>
  /\ UNCHANGED rbVars
  /\ UNCHANGED extVars

\* line 107: the scan is exhausted, flush the pending group
GetManyEnd ==
  /\ pc = "loop"
  /\ iter = <<>>
  /\ ret' = IF withinTill(result.id.blockNumber, tillBlockNumber)
            THEN [ret EXCEPT !.out = Append(@, result)]
            ELSE ret
  /\ pc' = "done"
  /\ UNCHANGED <<level, changeIndex, op, args, iter, lastId, result,
                 tillBlockNumber, existed, marked>>
  /\ UNCHANGED rbVars
  /\ UNCHANGED extVars

----------------------------------------------------------------------------
(* getIdsChanged, getIdsChanged_fill *)

\* Map.prototype.set on a Map kept as the sequence of its [key, value]
\* entries in insertion order: a key already present keeps its position
\* a Map that keeps the value first set for a key
MapSetIfAbsent(m, k, v) ==
  IF \E i \in 1..Len(m) : m[i][1] = k THEN m ELSE Append(m, <<k, v>>)

MapSet(m, k, v) ==
  IF \E i \in 1..Len(m) : m[i][1] = k
  THEN [i \in 1..Len(m) |-> IF m[i][1] = k THEN <<k, v>> ELSE m[i]]
  ELSE Append(m, <<k, v>>)

\* lines 155-158: the body of the loop for one change key
collectId(ids, changeKey) ==
  LET parts == Split(changeKey)
      nid   == At(parts, 2) \o <<Slash>> \o At(parts, 3) \o <<Slash>> \o At(parts, 4)
      id    == nid \o <<Slash>> \o decodeNumber(At(parts, 1))
  IN  MapSet(ids, nid, id)

RECURSIVE collectIds(_, _)
collectIds(ids, keys) ==
  IF keys = <<>> THEN ids
  ELSE collectIds(collectId(ids, Head(keys)), Tail(keys))

\* iterator options that take the lower of the two bounds as the start
getIdsChangedRangeSorted(from, to) ==
  IF LexLE(encodeNumber(from), encodeNumber(to))
  THEN [gte |-> encodeNumber(from) \o <<Slash>>,
        lte |-> encodeNumber(to) \o <<Slash, Tilde>>]
  ELSE [gte |-> encodeNumber(to) \o <<Slash>>,
        lte |-> encodeNumber(from) \o <<Slash, Tilde>>]

getIdsChangedRange(from, to) ==
  [gte |-> encodeNumber(from) \o <<Slash>>,
   lte |-> encodeNumber(to) \o <<Slash, Tilde>>]

getIdsChanged(index, from, to0) ==
  LET to == IF to0 = None THEN from ELSE to0
  IN  IF ~CanEncode(from) \/ ~CanEncode(to)
      THEN [ok |-> FALSE, code |-> "ENCODE", out |-> <<>>]
      ELSE LET range == getIdsChangedRange(from, to)
               ids   == collectIds(<<>>, Iterator(index, range.gte, range.lte))
           IN  [ok |-> TRUE, code |-> "",
                out |-> [i \in 1..Len(ids) |-> ids[i][2]]]

\* a fill that leaves out the keys the store does not hold
getIdsChanged_fillSkipping(store, index, from, to) ==
  LET idsChanged == getIdsChanged(index, from, to)
      Stored(id) == id \in DOMAIN store
      found      == SelectSeq(idsChanged.out, Stored)
  IN  IF ~idsChanged.ok THEN idsChanged
      ELSE [ok |-> TRUE, code |-> "",
            out |-> [i \in 1..Len(found) |->
                       [id |-> keyToDatum(found[i]), value |-> store[found[i]]]]]

getIdsChanged_fill(store, index, from, to) ==
  LET idsChanged == getIdsChanged(index, from, to)
  IN  IF ~idsChanged.ok THEN idsChanged
      ELSE IF \E i \in 1..Len(idsChanged.out) : idsChanged.out[i] \notin DOMAIN store
      THEN [ok |-> FALSE, code |-> "LEVEL_NOT_FOUND", out |-> <<>>]
      ELSE [ok |-> TRUE, code |-> "",
            out |-> [i \in 1..Len(idsChanged.out) |->
                       [id    |-> keyToDatum(idsChanged.out[i]),
                        value |-> store[idsChanged.out[i]]]]]

GetIdsChanged(from, to) ==
  /\ Idle
  /\ ret' = getIdsChanged(changeIndex, from, to)
  /\ op' = "getIdsChanged"
  /\ args' = [datum |-> NoDatum, data |-> "", from |-> from, to |-> to]
  /\ ResetGen
  /\ UNCHANGED rbVars
  /\ UNCHANGED extVars
  /\ UNCHANGED <<level, changeIndex, existed, marked>>

GetIdsChanged_fill(from, to) ==
  /\ Idle
  /\ ret' = getIdsChanged_fill(level, changeIndex, from, to)
  /\ op' = "getIdsChanged_fill"
  /\ args' = [datum |-> NoDatum, data |-> "", from |-> from, to |-> to]
  /\ ResetGen
  /\ UNCHANGED rbVars
  /\ UNCHANGED extVars
  /\ UNCHANGED <<level, changeIndex, existed, marked>>

----------------------------------------------------------------------------
(* del, level.clear, an insert whose second write fails *)

\* level.del: the entry is gone afterwards; a key that is not stored is no error
Remove(store, key) == [k \in DOMAIN store \ {key} |-> store[k]]

\* a del that removes the Primary entry only
DelPrimaryOnly(datum) ==
  /\ Idle
  /\ level' = Remove(level, datumToKey(datum))
  /\ changeIndex' = changeIndex
  /\ ret' = [ok |-> TRUE]
  /\ op' = "del"
  /\ args' = [datum |-> datum, data |-> "", from |-> None, to |-> None]
  /\ existed' = (datumToKey(datum) \in DOMAIN level)
  /\ marked' = (datumToChangeKey(datum) \in changeIndex)
  /\ ResetGen
  /\ UNCHANGED rbVars
  /\ UNCHANGED extVars

\* a del that fails, writing nothing, when the Primary entry is not stored
DelIfPresent(datum) ==
  /\ Idle
  /\ IF datumToKey(datum) \in DOMAIN level
     THEN /\ level' = Remove(level, datumToKey(datum))
          /\ changeIndex' = changeIndex \ {datumToChangeKey(datum)}
          /\ ret' = [ok |-> TRUE]
     ELSE /\ level' = level
          /\ changeIndex' = changeIndex
          /\ ret' = [ok |-> FALSE]
  /\ op' = "del"
  /\ args' = [datum |-> datum, data |-> "", from |-> None, to |-> None]
  /\ existed' = (datumToKey(datum) \in DOMAIN level)
  /\ marked' = (datumToChangeKey(datum) \in changeIndex)
  /\ ResetGen
  /\ UNCHANGED rbVars
  /\ UNCHANGED extVars

Del(datum) ==
  /\ Idle
  /\ level' = Remove(level, datumToKey(datum))
  /\ IF CanEncode(datum.blockNumber)
     THEN /\ changeIndex' = changeIndex \ {datumToChangeKey(datum)}
          /\ ret' = [ok |-> TRUE]
     ELSE /\ changeIndex' = changeIndex
          /\ ret' = [ok |-> FALSE]
  /\ op' = "del"
  /\ args' = [datum |-> datum, data |-> "", from |-> None, to |-> None]
  /\ existed' = (datumToKey(datum) \in DOMAIN level)
  /\ marked' = (datumToChangeKey(datum) \in changeIndex)
  /\ ResetGen
  /\ UNCHANGED rbVars
  /\ UNCHANGED extVars

\* db.level.clear(): the Primary Index is emptied, the Change Index is not
ClearLevel ==
  /\ Idle
  /\ level' = <<>>
  /\ op' = "clear"
  /\ args' = NoArgs
  /\ ret' = [ok |-> TRUE]
  /\ existed' = FALSE
  /\ marked' = FALSE
  /\ ResetGen
  /\ UNCHANGED <<changeIndex>>
  /\ UNCHANGED rbVars
  /\ UNCHANGED extVars

\* an insert that undoes its Primary write when the marker write fails
InsertRolledBack(datum, data) ==
  /\ Idle
  /\ \/ datumToKey(datum) \in DOMAIN level
     \/ Cardinality(DOMAIN level) < MaxEntries
  /\ level' = level
  /\ changeIndex' = changeIndex
  /\ ret' = [ok |-> FALSE]
  /\ op' = "insert"
  /\ args' = [datum |-> datum, data |-> data, from |-> None, to |-> None]
  /\ existed' = (datumToKey(datum) \in DOMAIN level)
  /\ marked' = (datumToChangeKey(datum) \in changeIndex)
  /\ ResetGen
  /\ UNCHANGED rbVars
  /\ UNCHANGED extVars

\* insert, the put on the Change Index rejecting with a storage error after
\* the put on the Primary Index has completed
InsertMarkerFails(datum, data) ==
  /\ Idle
  /\ \/ datumToKey(datum) \in DOMAIN level
     \/ Cardinality(DOMAIN level) < MaxEntries
  /\ level' = Put(level, datumToKey(datum), data)
  /\ changeIndex' = changeIndex
  /\ ret' = [ok |-> FALSE]
  /\ op' = "insert"
  /\ args' = [datum |-> datum, data |-> data, from |-> None, to |-> None]
  /\ existed' = (datumToKey(datum) \in DOMAIN level)
  /\ marked' = (datumToChangeKey(datum) \in changeIndex)
  /\ ResetGen
  /\ UNCHANGED rbVars
  /\ UNCHANGED extVars

----------------------------------------------------------------------------
(* createChangeIndex: one step per entry of its scan of the Primary Index *)

callerVars ==
  <<op, args, ret, pc, iter, lastId, result, tillBlockNumber, existed, marked>>

\* a run that empties the Change Index before its scan
CreateChangeIndexStartCleared ==
  /\ \/ rbPc = "idle"
     \/ rbPc = "done" /\ Len(once) < MaxRuns
  /\ rbPc' = "loop"
  /\ rbIter' = SortKeys(DOMAIN level)
  /\ count' = 0
  /\ rbOut' = NoOut
  /\ once' = IF rbPc = "done" THEN once ELSE <<>>
  /\ base' = IF base = <<>>
             THEN <<[changeIndex |-> changeIndex, keys |-> DOMAIN level,
                     interrupted |-> FALSE]>>
             ELSE base
  /\ changeIndex' = {}
  /\ UNCHANGED <<level>>
  /\ UNCHANGED callerVars
  /\ UNCHANGED extVars

\* an iteration that takes the marker away where there is one already
CreateChangeIndexStepToggle ==
  /\ rbPc = "loop"
  /\ rbIter # <<>>
  /\ LET datum == keyToDatum(Head(rbIter))
     IN  /\ changeIndex' = IF datumToChangeKey(datum) \in changeIndex
                           THEN changeIndex \ {datumToChangeKey(datum)}
                           ELSE changeIndex \cup {datumToChangeKey(datum)}
         /\ count' = count + 1
         /\ rbIter' = Tail(rbIter)
         /\ rbPc' = "loop"
  /\ UNCHANGED <<level, rbOut, once, base>>
  /\ UNCHANGED callerVars
  /\ UNCHANGED extVars

\* line 190-191: count = 0, the iterator over the whole Primary Index opens
CreateChangeIndexStart ==
  /\ \/ rbPc = "idle"
     \/ rbPc = "done" /\ Len(once) < MaxRuns
  /\ rbPc' = "loop"
  /\ rbIter' = SortKeys(DOMAIN level)
  /\ count' = 0
  /\ rbOut' = NoOut
  /\ once' = IF rbPc = "done" THEN once ELSE <<>>
  /\ base' = IF base = <<>>
             THEN <<[changeIndex |-> changeIndex, keys |-> DOMAIN level,
                     interrupted |-> FALSE]>>
             ELSE base
  /\ UNCHANGED <<level, changeIndex>>
  /\ UNCHANGED callerVars
  /\ UNCHANGED extVars

\* lines 192-194: one iteration of the loop
CreateChangeIndexStep ==
  /\ rbPc = "loop"
  /\ rbIter # <<>>
  /\ LET datum == keyToDatum(Head(rbIter))
     IN  IF CanEncode(datum.blockNumber)
         THEN /\ changeIndex' = changeIndex \cup {datumToChangeKey(datum)}
              /\ count' = count + 1
              /\ rbIter' = Tail(rbIter)
              /\ rbPc' = "loop"
         ELSE /\ changeIndex' = changeIndex
              /\ count' = count
              /\ rbIter' = <<>>
              /\ rbPc' = "threw"
  /\ UNCHANGED <<level, rbOut, once, base>>
  /\ UNCHANGED callerVars
  /\ UNCHANGED extVars

\* line 197: the scan is exhausted, the count is logged, nothing is returned
CreateChangeIndexEnd ==
  /\ rbPc = "loop"
  /\ rbIter = <<>>
  /\ rbPc' = "done"
  /\ rbOut' = [returned |-> <<>>, logged |-> <<count>>]
  /\ once' = Append(once, changeIndex)
  /\ UNCHANGED <<level, changeIndex, rbIter, count, base>>
  /\ UNCHANGED callerVars
  /\ UNCHANGED extVars

\* an abandoned run whose puts are undone
CreateChangeIndexInterruptUndone ==
  /\ rbPc = "loop"
  /\ rbPc' = "idle"
  /\ rbIter' = <<>>
  /\ count' = 0
  /\ once' = <<>>
  /\ base' = <<[base[1] EXCEPT !.interrupted = TRUE]>>
  /\ changeIndex' = base[1].changeIndex
  /\ UNCHANGED <<level, rbOut>>
  /\ UNCHANGED callerVars
  /\ UNCHANGED extVars

\* the run is abandoned between two iterations; what it wrote stays
CreateChangeIndexInterrupt ==
  /\ rbPc = "loop"
  /\ rbPc' = "idle"
  /\ rbIter' = <<>>
  /\ count' = 0
  /\ once' = <<>>
  /\ base' = <<[base[1] EXCEPT !.interrupted = TRUE]>>
  /\ UNCHANGED <<level, changeIndex, rbOut>>
  /\ UNCHANGED callerVars
  /\ UNCHANGED extVars

\* the caller of createChangeIndex goes on
CreateChangeIndexReturn ==
  /\ rbPc \in {"done", "threw"}
  /\ rbPc' = "idle"
  /\ rbIter' = <<>>
  /\ count' = 0
  /\ rbOut' = NoOut
  /\ once' = <<>>
  /\ base' = <<>>
  /\ UNCHANGED <<level, changeIndex>>
  /\ UNCHANGED callerVars
  /\ UNCHANGED extVars

----------------------------------------------------------------------------
(* The caller takes what the call returned and goes on to its next call *)

Return ==
  /\ op # "none"
  /\ pc # "loop"
  /\ op' = "none"
  /\ args' = NoArgs
  /\ ret' = <<>>
  /\ existed' = FALSE
  /\ marked' = FALSE
  /\ ResetGen
  /\ UNCHANGED rbVars
  /\ UNCHANGED extVars
  /\ UNCHANGED <<level, changeIndex>>

Next ==
  \/ \E d \in Datums, v \in Values : Insert(d, v)
  \/ \E i \in Identities, b \in BlockNumbers \cup {None} : GetOne(MkDatum(i, b))
  \/ \E p \in Partials, b \in BlockNumbers \cup {None} :
        GetManyStart([p EXCEPT !.blockNumber = b])
  \/ GetManyLoop
  \/ GetManyEnd
  \/ \E f \in BlockNumbers, t \in BlockNumbers \cup {None} : GetIdsChanged(f, t)
  \/ \E f \in BlockNumbers, t \in BlockNumbers \cup {None} : GetIdsChanged_fill(f, t)
  \/ Return

Spec == Init /\ [][Next]_vars

----------------------------------------------------------------------------
(* All the operations, one caller that awaits each call before the next *)

OpsIdentities ==
  { [chainId |-> S_1, address |-> S_0xb8, tokenId |-> S_1],
    [chainId |-> S_1, address |-> S_0xb8, tokenId |-> S_11] }

OpsBlockNumbers == {S_9, S_10}

OpsDatums == {MkDatum(i, b) : i \in OpsIdentities, b \in OpsBlockNumbers}

\* no createChangeIndex is running or waiting to be taken up again
Quiet == rbPc = "idle" /\ base = <<>>

NextOps ==
  \/ \E d \in OpsDatums, v \in Values : Quiet /\ Insert(d, v)
  \/ \E d \in OpsDatums, v \in Values : Quiet /\ InsertMarkerFails(d, v)
  \/ \E d \in OpsDatums : Quiet /\ Del(d)
  \/ Quiet /\ ClearLevel
  \/ \E i \in OpsIdentities : Quiet /\ GetOne(MkDatum(i, None))
  \/ \E f \in OpsBlockNumbers, t \in OpsBlockNumbers \cup {None} :
        Quiet /\ GetIdsChanged(f, t)
  \/ \E f \in OpsBlockNumbers, t \in OpsBlockNumbers \cup {None} :
        Quiet /\ GetIdsChanged_fill(f, t)
  \/ Return
  \/ Idle /\ CreateChangeIndexStart
  \/ CreateChangeIndexStep
  \/ CreateChangeIndexEnd
  \/ CreateChangeIndexReturn

SpecOps == Init /\ [][NextOps]_vars

----------------------------------------------------------------------------
(* What the two indexes hold, read as (identity, block number) pairs *)

IdOf(d) == [chainId |-> d.chainId, address |-> d.address, tokenId |-> d.tokenId]

\* the block number of a primary key, as a number
BlockOf(key) == NumVal(keyToDatum(key).blockNumber)

\* the primary keys that are Versions of identity i
VersionsOf(i) == {k \in DOMAIN level : IdOf(keyToDatum(k)) = i}

\* the Version of a non-empty set of primary keys with the highest block number
Highest(S) == CHOOSE k \in S : \A o \in S : BlockOf(o) <= BlockOf(k)

\* the Version as a call returns it
Returned(key) == [id |-> keyToDatum(key), value |-> level[key]]

\* identity i lies under the prefix a getMany is called with
Under(i, datum) ==
  /\ i.chainId = datum.chainId
  /\ datum.address # None => i.address = datum.address

StoredIdentities == {IdOf(keyToDatum(k)) : k \in DOMAIN level}

\* the Versions of identity i at or below a cutoff, compared as numbers
UpTo(i, cutoff) == {k \in VersionsOf(i) : BlockOf(k) <= NumVal(cutoff)}

SeqRange(q) == {q[n] : n \in 1..Len(q)}

----------------------------------------------------------------------------
(* C1 -- getOne without a cutoff *)

\* C1: after any sequence of inserts, getOne(identity) with no cutoff returns,
\* for an identity that has a Version, the id and the payload of the Version
\* with the numerically highest block number.
C1_GetOneLatestIsHighest ==
  (op = "getOne" /\ args.datum.blockNumber = None
     /\ VersionsOf(IdOf(args.datum)) # {})
  => /\ ret.ok
     /\ ret.id = keyToDatum(Highest(VersionsOf(IdOf(args.datum))))
     /\ ret.value = level[Highest(VersionsOf(IdOf(args.datum)))]

----------------------------------------------------------------------------
(* C2 -- getOne with a cutoff *)

\* C2: getOne(identity, cutoffBlock) returns the Version of the identity with
\* the numerically greatest block number <= cutoffBlock, and fails with
\* LEVEL_NOT_FOUND exactly when the identity has no Version at or below the
\* cutoff.
C2_GetOneAtCutoff ==
  (op = "getOne" /\ args.datum.blockNumber # None)
  => LET S == UpTo(IdOf(args.datum), args.datum.blockNumber)
     IN  IF S = {}
         THEN ~ret.ok /\ ret.code = "LEVEL_NOT_FOUND"
         ELSE ret.ok /\ ret.id = keyToDatum(Highest(S))
                     /\ ret.value = level[Highest(S)]

----------------------------------------------------------------------------
(* C3, C4 -- what a completed getMany has yielded *)

\* one entry per identity under the prefix that has a Version in S(i),
\* that entry being the numerically highest Version of S(i)
YieldsHighestOf(S(_)) ==
  LET ids == {i \in StoredIdentities : Under(i, args.datum) /\ S(i) # {}}
  IN  /\ ret.ok
      /\ Len(ret.out) = Cardinality(ids)
      /\ SeqRange(ret.out) = {Returned(Highest(S(i))) : i \in ids}

GetManyDone == op = "getMany" /\ pc = "done"

SomeUnder(datum) == \E i \in StoredIdentities : Under(i, datum)

\* C3: getMany(prefix, cutoffBlock) yields exactly one entry for each identity
\* under the prefix that has a Version with block number <= cutoffBlock, the
\* numerically highest such Version; identities whose Versions are all above
\* the cutoff yield nothing and cause no error.
C3_GetManyAtCutoff ==
  (GetManyDone /\ args.datum.blockNumber # None /\ SomeUnder(args.datum))
  => LET AtCutoff(i) == UpTo(i, args.datum.blockNumber)
     IN  YieldsHighestOf(AtCutoff)

\* C4: with the cutoff omitted getMany yields, for every identity under the
\* prefix that has a Version, its Version with the highest block number,
\* whatever the digit count or leading digit of the block numbers.
C4_GetManyUnbounded ==
  (GetManyDone /\ args.datum.blockNumber = None /\ SomeUnder(args.datum))
  => YieldsHighestOf(VersionsOf)

----------------------------------------------------------------------------
(* C5 -- the order and the moment of getMany's yields *)

\* the yields are in ascending primary-key order, no two of one identity
AscendingDistinct(out) ==
  \A m, n \in 1..Len(out) :
     m < n => /\ LexLT(datumToKey(out[m].id), datumToKey(out[n].id))
              /\ IdOf(out[m].id) # IdOf(out[n].id)

\* C5: getMany emits its results in ascending primary-key order of identity,
\* never two results for one identity, and a step of the generator emits the
\* pending group's chosen entry only when the scan has reached an entry of a
\* different identity or its end.
C5_GetManyOrderAndFlush ==
  [][ (op = "getMany" /\ pc = "loop")
      => /\ AscendingDistinct(ret'.out)
         /\ ret'.out # ret.out
            => /\ ret'.out = Append(ret.out, result)
               /\ \/ iter = <<>>
                  \/ IdOf(keyToDatum(Head(iter)[1])) # IdOf(result.id) ]_vars

\* a getMany over two identities, the first with two Versions, has yielded
\* one entry for each
C5_Witness ==
  /\ GetManyDone
  /\ Len(ret.out) = 2
  /\ Cardinality(VersionsOf(IdOf(ret.out[1].id))) = 2

----------------------------------------------------------------------------
(* C6 -- scans match whole fields *)

\* C6: getOne(identity) never returns a Version of another identity, and
\* getMany(chainId, address) never yields a Version whose chainId or address
\* differs from the requested ones.
C6_WholeFieldMatch ==
  /\ (op = "getOne" /\ ret.ok) => IdOf(ret.id) = IdOf(args.datum)
  /\ op = "getMany"
     => \A n \in 1..Len(ret.out) : Under(IdOf(ret.out[n].id), args.datum)

\* getOne answered for token "1" while token "11" of the same address is
\* stored too
C6_Witness ==
  /\ op = "getOne" /\ ret.ok
  /\ args.datum.tokenId = S_1
  /\ \E i \in StoredIdentities :
        /\ i.chainId = args.datum.chainId /\ i.address = args.datum.address
        /\ i.tokenId = S_11

----------------------------------------------------------------------------
(* C7, C8 -- getIdsChanged and getIdsChanged_fill *)

\* a change key read as the identity and the block number it marks
MarkerOf(changeKey) ==
  LET parts == Split(changeKey)
  IN  [id    |-> [chainId |-> At(parts, 2), address |-> At(parts, 3),
                  tokenId |-> At(parts, 4)],
       block |-> NumVal(At(parts, 1))]

Markers == {MarkerOf(k) : k \in changeIndex}

\* the blocks at which identity i has a marker inside the window of the call
InWindow(i) ==
  LET from == NumVal(args.from)
      to   == IF args.to = None THEN from ELSE NumVal(args.to)
  IN  {m.block : m \in {x \in Markers : x.id = i /\ from <= x.block /\ x.block <= to}}

MinOf(S) == CHOOSE b \in S : \A o \in S : b <= o
MaxOf(S) == CHOOSE b \in S : \A o \in S : o <= b

\* every key getIdsChanged returned, and every entry getIdsChanged_fill
\* returned, is the one at block Pick(blocks in the window) of its identity
ReturnsMarkerAt(Pick(_)) ==
  /\ (op = "getIdsChanged" /\ ret.ok)
     => \A n \in 1..Len(ret.out) :
           LET d == keyToDatum(ret.out[n])
           IN  NumVal(d.blockNumber) = Pick(InWindow(IdOf(d)))
  /\ (op = "getIdsChanged_fill" /\ ret.ok)
     => \A n \in 1..Len(ret.out) :
           LET d == ret.out[n].id
           IN  /\ NumVal(d.blockNumber) = Pick(InWindow(IdOf(d)))
               /\ \E k \in VersionsOf(IdOf(d)) :
                     /\ BlockOf(k) = Pick(InWindow(IdOf(d)))
                     /\ ret.out[n].value = level[k]

\* C7 as stated: for an identity with markers at several blocks of the window
\* getIdsChanged returns the key of the earliest one, and getIdsChanged_fill
\* resolves the identity to the payload stored at that earliest block.
C7_EarliestMarker == ReturnsMarkerAt(MinOf)

\* C7 as amended: for an identity with markers at several blocks of the
\* window getIdsChanged returns the key of the latest one, and
\* getIdsChanged_fill resolves the identity to the payload stored at that
\* latest block.
C7_LatestMarker == ReturnsMarkerAt(MaxOf)

\* getIdsChanged_fill answered for an identity with markers at two blocks of
\* the window
C7_Witness ==
  /\ op = "getIdsChanged_fill" /\ ret.ok
  /\ \E n \in 1..Len(ret.out) : Cardinality(InWindow(IdOf(ret.out[n].id))) >= 2

\* C8: getIdsChanged(from, to) returns exactly one key for each identity that
\* has a marker at a block b with from <= b <= to, compared as numbers, and no
\* key for any other identity; with `to` omitted the range is [from, from].
C8_ChangedInRange ==
  (op = "getIdsChanged" /\ ret.ok)
  => LET changed == {m.id : m \in {x \in Markers : InWindow(x.id) # {}}}
     IN  /\ Len(ret.out) = Cardinality(changed)
         /\ {IdOf(keyToDatum(ret.out[n])) : n \in 1..Len(ret.out)} = changed

\* getIdsChanged over a window of blocks of differing digit counts returned
\* the identity marked inside it while another marker lies outside it
C8_Witness ==
  /\ op = "getIdsChanged" /\ ret.ok
  /\ args.from = S_9 /\ args.to = S_10
  /\ Len(ret.out) >= 1
  /\ \E m \in Markers : m.block = 95

----------------------------------------------------------------------------
(* C9, C10 -- insert *)

PairOf(key) ==
  [id |-> IdOf(keyToDatum(key)), block |-> BlockOf(key)]

PrimaryPairs == {PairOf(k) : k \in DOMAIN level}

\* C9: every insert leaves exactly one Primary Index entry and exactly one
\* Change Index marker for its (identity, blockNumber), so that after any
\* sequence of inserts the two indexes hold the same set of pairs.
C9_InsertWritesBoth ==
  (op = "insert" /\ ret.ok)
  => LET pair == [id |-> IdOf(args.datum),
                  block |-> NumVal(args.datum.blockNumber)]
     IN  /\ Cardinality({k \in DOMAIN level : PairOf(k) = pair}) = 1
         /\ Cardinality({k \in changeIndex : MarkerOf(k) = pair}) = 1
         /\ PrimaryPairs = Markers

\* an insert has completed with Versions of two identities stored
C9_Witness ==
  /\ op = "insert" /\ ret.ok
  /\ Cardinality(StoredIdentities) >= 2
  /\ Cardinality(changeIndex) = MaxEntries

\* C10: inserting an (identity, blockNumber) that is stored already overwrites
\* that exact entry: the Primary Index holds one entry for the pair, carrying
\* the payload of the later insert, the Change Index holds one marker for it,
\* the identity has as many Versions as before, and every other entry and
\* marker is unchanged.
C10_ReinsertOverwrites ==
  [][ (op' = "insert" /\ \E k \in DOMAIN level : keyToDatum(k) = args'.datum)
      => LET same == {k \in DOMAIN level' : keyToDatum(k) = args'.datum}
             pair == [id |-> IdOf(args'.datum),
                      block |-> NumVal(args'.datum.blockNumber)]
         IN  /\ Cardinality(same) = 1
             /\ \A k \in same : level'[k] = args'.data
             /\ Cardinality({k \in changeIndex' : MarkerOf(k) = pair}) = 1
             /\ Cardinality({k \in DOMAIN level' :
                                IdOf(keyToDatum(k)) = IdOf(args'.datum)}) =
                  Cardinality({k \in DOMAIN level :
                                IdOf(keyToDatum(k)) = IdOf(args'.datum)})
             /\ DOMAIN level' = DOMAIN level
             /\ \A k \in DOMAIN level \ same : level'[k] = level[k]
             /\ changeIndex' = changeIndex ]_vars

\* an insert has replaced the payload stored at its key while another entry
\* is stored beside it
C10_Witness ==
  /\ op = "insert" /\ existed
  /\ args.data = "updated-data"
  /\ level[datumToKey(args.datum)] = "updated-data"
  /\ Cardinality(DOMAIN level) >= 2

----------------------------------------------------------------------------
(* createChangeIndex with the calls of another caller between its iterations,
   and abandoned and started again; del and level.clear only while no run is
   in progress *)

InSeries == base # <<>>

RebuildDatums ==
  { MkDatum([chainId |-> S_1, address |-> S_0xb8, tokenId |-> S_1], S_9),
    MkDatum([chainId |-> S_1, address |-> S_0xb8, tokenId |-> S_1], S_10),
    MkDatum([chainId |-> S_1, address |-> S_0xb8, tokenId |-> S_11], S_10) }

NextRebuild ==
  \/ \E d \in RebuildDatums : Insert(d, "data")
  \/ \E d \in RebuildDatums : Quiet /\ InsertMarkerFails(d, "data")
  \/ Quiet /\ ClearLevel
  \/ \E f \in OpsBlockNumbers : InSeries /\ GetIdsChanged(f, S_10)
  \/ Return
  \/ Idle /\ rbPc = "idle" /\ CreateChangeIndexStart
  \/ CreateChangeIndexStep
  \/ CreateChangeIndexEnd
  \/ CreateChangeIndexInterrupt
  \/ CreateChangeIndexReturn

SpecRebuild == Init /\ [][NextRebuild]_vars

----------------------------------------------------------------------------
(* inserts of block numbers that encodeNumber cannot encode *)

S_Long == <<49, 48, 48, 48, 48, 48, 48, 48, 48, 48, 48>>   \* "10000000000"

LongBlockNumbers == {S_10, S_Long}

LongDatums == {MkDatum(i, b) : i \in OpsIdentities, b \in LongBlockNumbers}

NextLong ==
  \/ \E datum \in LongDatums, data \in Values : Insert(datum, data)
  \/ \E i \in OpsIdentities : GetOne(MkDatum(i, None))
  \/ Return

SpecLong == Init /\ [][NextLong]_vars

----------------------------------------------------------------------------
(* encodeNumber and decodeNumber on their own: two numbers are encoded by
   one caller, and the two results decoded *)

S_0          == <<48>>                                       \* "0"
S_09         == <<48, 57>>                                   \* "09"
S_99         == <<57, 57>>                                   \* "99"
S_100        == <<49, 48, 48>>                               \* "100"
S_99999      == <<57, 57, 57, 57, 57>>                       \* "99999"
S_100000     == <<49, 48, 48, 48, 48, 48>>                   \* "100000"
S_999999999  == <<57, 57, 57, 57, 57, 57, 57, 57, 57>>       \* "999999999"
S_1000000000 == <<49, 48, 48, 48, 48, 48, 48, 48, 48, 48>>   \* "1000000000"
S_2147483648 == <<50, 49, 52, 55, 52, 56, 51, 54, 52, 56>>   \* "2147483648"
S_9999999999 == <<57, 57, 57, 57, 57, 57, 57, 57, 57, 57>>   \* "9999999999"
S_LongNines  == <<57, 57, 57, 57, 57, 57, 57, 57, 57, 57, 57>>  \* "99999999999"

CodecInputs ==
  {S_0, S_1, S_9, S_09, S_10, S_95, S_99, S_100, S_99999, S_100000,
   S_999999999, S_1000000000, S_2147483648, S_9999999999, S_Long, S_LongNines}

\* the outcome of one call of encodeNumber
encodeNumberCall(num) ==
  IF CanEncode(num)
  THEN [ok |-> TRUE, out |-> encodeNumber(num)]
  ELSE [ok |-> FALSE, out |-> <<>>]

EncodeNumber(a, b) ==
  /\ Idle
  /\ op' = "encodeNumber"
  /\ args' = [datum |-> NoDatum, data |-> "", from |-> a, to |-> b]
  /\ ret' = <<encodeNumberCall(a), encodeNumberCall(b)>>
  /\ ResetGen
  /\ UNCHANGED <<level, changeIndex, existed, marked>>
  /\ UNCHANGED rbVars
  /\ UNCHANGED extVars

DecodeNumber ==
  /\ op = "encodeNumber"
  /\ ret[1].ok /\ ret[2].ok
  /\ op' = "decodeNumber"
  /\ ret' = <<[ok |-> TRUE, out |-> decodeNumber(ret[1].out)],
              [ok |-> TRUE, out |-> decodeNumber(ret[2].out)]>>
  /\ ResetGen
  /\ UNCHANGED <<level, changeIndex, args, existed, marked>>
  /\ UNCHANGED rbVars
  /\ UNCHANGED extVars

NextCodec ==
  \/ \E a \in CodecInputs, b \in CodecInputs : EncodeNumber(a, b)
  \/ DecodeNumber
  \/ Return

SpecCodec == Init /\ [][NextCodec]_vars

----------------------------------------------------------------------------
(* The two store handles: the exit hook closes both and ends the process,
   the teardown of the tests closes the Primary store and leaves the DB
   object in use *)

BothClosed == [level |-> "closed", changeIndex |-> "closed"]

\* what a store operation on a closed handle rejects with
NotOpen == [ok |-> FALSE, code |-> "LEVEL_DATABASE_NOT_OPEN", out |-> <<>>]

Serving == status = BothOpen

\* process.on("exit"): both handles are closed and nothing runs afterwards
ExitHook ==
  /\ Serving
  /\ Idle
  /\ rbPc = "idle"
  /\ status' = BothClosed
  /\ UNCHANGED <<level, changeIndex, calls>>
  /\ UNCHANGED callerVars
  /\ UNCHANGED rbVars

\* test.after: db.level.close()
CloseLevel ==
  /\ Serving
  /\ Idle
  /\ rbPc = "idle"
  /\ status' = [status EXCEPT !.level = "closed"]
  /\ UNCHANGED <<level, changeIndex, calls>>
  /\ UNCHANGED callerVars
  /\ UNCHANGED rbVars

\* the process is alive: the exit hook has not run
Alive == status.changeIndex = "open"

\* insert, del, getOne, getMany on a closed Primary store: the first store
\* operation of each is on `level` and rejects
PrimaryNotOpen(name, datum, data) ==
  /\ Alive
  /\ status.level = "closed"
  /\ Idle
  /\ op' = name
  /\ args' = [datum |-> datum, data |-> data, from |-> None, to |-> None]
  /\ ret' = NotOpen
  /\ existed' = FALSE
  /\ marked' = FALSE
  /\ ResetGen
  /\ UNCHANGED <<level, changeIndex>>
  /\ UNCHANGED rbVars
  /\ UNCHANGED extVars

\* createChangeIndex on a closed Primary store: level.iterator() throws
CreateChangeIndexNotOpen ==
  /\ Alive
  /\ status.level = "closed"
  /\ rbPc = "idle"
  /\ rbPc' = "threw"
  /\ UNCHANGED <<level, changeIndex, rbIter, count, rbOut, once, base>>
  /\ UNCHANGED callerVars
  /\ UNCHANGED extVars

\* getIdsChanged_fill with the Primary store closed: the scan of the Change
\* Index goes through, the first level.get rejects
getIdsChanged_fillNotOpen(index, from, to) ==
  LET idsChanged == getIdsChanged(index, from, to)
  IN  IF ~idsChanged.ok THEN idsChanged
      ELSE IF idsChanged.out # <<>> THEN NotOpen
      ELSE [ok |-> TRUE, code |-> "", out |-> <<>>]

GetIdsChanged_fillNotOpen(from, to) ==
  /\ Alive
  /\ status.level = "closed"
  /\ Idle
  /\ ret' = getIdsChanged_fillNotOpen(changeIndex, from, to)
  /\ op' = "getIdsChanged_fill"
  /\ args' = [datum |-> NoDatum, data |-> "", from |-> from, to |-> to]
  /\ ResetGen
  /\ UNCHANGED rbVars
  /\ UNCHANGED extVars
  /\ UNCHANGED <<level, changeIndex, existed, marked>>

NextLifecycle ==
  \/ \E d \in OpsDatums : Serving /\ Insert(d, "data")
  \/ \E d \in OpsDatums : Serving /\ Del(d)
  \/ Serving /\ ClearLevel
  \/ ExitHook
  \/ CloseLevel
  \/ \E d \in OpsDatums : PrimaryNotOpen("insert", d, "data")
  \/ \E d \in OpsDatums : PrimaryNotOpen("del", d, "")
  \/ \E d \in OpsDatums : PrimaryNotOpen("getOne", d, "")
  \/ \E p \in Partials : PrimaryNotOpen("getMany", p, "")
  \/ CreateChangeIndexNotOpen
  \/ \E f \in OpsBlockNumbers : Alive /\ GetIdsChanged(f, S_10)
  \/ \E f \in OpsBlockNumbers : GetIdsChanged_fillNotOpen(f, S_10)
  \/ Alive /\ Return
  \/ Alive /\ CreateChangeIndexReturn

SpecLifecycle == Init /\ [][NextLifecycle]_vars

----------------------------------------------------------------------------
(* insert and del of concurrent callers, one store operation at a time *)

InCall(name, datum, data, at, ok) ==
  [op |-> name, datum |-> datum, data |-> data, pc |-> at, ok |-> ok]

\* an insert that starts with the put on the Change Index
InsertMarkerFirst(c, datum, data) ==
  /\ calls[c].op = "none"
  /\ changeIndex' = changeIndex \cup {datumToChangeKey(datum)}
  /\ calls' = [calls EXCEPT ![c] = InCall("insert", datum, data, "marker", TRUE)]
  /\ UNCHANGED <<level, status>>
  /\ UNCHANGED callerVars
  /\ UNCHANGED rbVars

\* line 180: await this.level.put(...)
InsertPrimary(c, datum, data) ==
  /\ calls[c].op = "none"
  /\ \/ datumToKey(datum) \in DOMAIN level
     \/ Cardinality(DOMAIN level) < MaxEntries
  /\ level' = Put(level, datumToKey(datum), data)
  /\ calls' = [calls EXCEPT ![c] = InCall("insert", datum, data, "marker", TRUE)]
  /\ UNCHANGED <<changeIndex, status>>
  /\ UNCHANGED callerVars
  /\ UNCHANGED rbVars

\* line 181: await this.changeIndex.put(...), encodeNumber throwing first
\* on a block number that is too long
InsertMarker(c) ==
  /\ calls[c].op = "insert"
  /\ calls[c].pc = "marker"
  /\ IF CanEncode(calls[c].datum.blockNumber)
     THEN /\ changeIndex' = changeIndex \cup {datumToChangeKey(calls[c].datum)}
          /\ calls' = [calls EXCEPT ![c].pc = "done"]
     ELSE /\ changeIndex' = changeIndex
          /\ calls' = [calls EXCEPT ![c].pc = "done", ![c].ok = FALSE]
  /\ UNCHANGED <<level, status>>
  /\ UNCHANGED callerVars
  /\ UNCHANGED rbVars

\* line 181 with the put on the Change Index rejecting
InsertMarkerRejects(c) ==
  /\ calls[c].op = "insert"
  /\ calls[c].pc = "marker"
  /\ calls' = [calls EXCEPT ![c].pc = "done", ![c].ok = FALSE]
  /\ UNCHANGED <<level, changeIndex, status>>
  /\ UNCHANGED callerVars
  /\ UNCHANGED rbVars

\* line 185: await this.level.del(...)
DelPrimary(c, datum) ==
  /\ calls[c].op = "none"
  /\ level' = Remove(level, datumToKey(datum))
  /\ calls' = [calls EXCEPT ![c] = InCall("del", datum, "", "marker", TRUE)]
  /\ UNCHANGED <<changeIndex, status>>
  /\ UNCHANGED callerVars
  /\ UNCHANGED rbVars

\* line 186: await this.changeIndex.del(...)
DelMarker(c) ==
  /\ calls[c].op = "del"
  /\ calls[c].pc = "marker"
  /\ IF CanEncode(calls[c].datum.blockNumber)
     THEN /\ changeIndex' = changeIndex \ {datumToChangeKey(calls[c].datum)}
          /\ calls' = [calls EXCEPT ![c].pc = "done"]
     ELSE /\ changeIndex' = changeIndex
          /\ calls' = [calls EXCEPT ![c].pc = "done", ![c].ok = FALSE]
  /\ UNCHANGED <<level, status>>
  /\ UNCHANGED callerVars
  /\ UNCHANGED rbVars

\* the caller has its outcome and goes on
CallReturn(c) ==
  /\ calls[c].pc = "done"
  /\ calls' = [calls EXCEPT ![c] = NoCall]
  /\ UNCHANGED <<level, changeIndex, status>>
  /\ UNCHANGED callerVars
  /\ UNCHANGED rbVars

\* runs made of inserts and createChangeIndex only
NextInserts ==
  \/ \E c \in Callers, d \in RebuildDatums : InsertPrimary(c, d, "data")
  \/ \E c \in Callers : InsertMarker(c)
  \/ \E c \in Callers : InsertMarkerRejects(c)
  \/ \E c \in Callers : CallReturn(c)
  \/ rbPc = "idle" /\ CreateChangeIndexStart
  \/ CreateChangeIndexStep
  \/ CreateChangeIndexEnd
  \/ CreateChangeIndexReturn

SpecInserts == Init /\ [][NextInserts]_vars

----------------------------------------------------------------------------
(* insert and del of two callers beside each other, and a reader *)

NextRace ==
  \/ \E c \in Callers, d \in RebuildDatums : InsertPrimary(c, d, "data")
  \/ \E c \in Callers : InsertMarker(c)
  \/ \E c \in Callers, d \in RebuildDatums : DelPrimary(c, d)
  \/ \E c \in Callers : DelMarker(c)
  \/ \E c \in Callers : CallReturn(c)
  \/ \E f \in OpsBlockNumbers : GetIdsChanged_fill(f, S_10)
  \/ Return

SpecRace == Init /\ [][NextRace]_vars

----------------------------------------------------------------------------
(* C11, C12 -- del *)

\* the (identity, block number) pair a call was made for
ArgPair(a) == [id |-> IdOf(a.datum), block |-> NumVal(a.datum.blockNumber)]

\* every entry and every marker of a pair other than `pair` is as it was
OthersUnchanged(pair) ==
  /\ {k \in DOMAIN level' : PairOf(k) # pair} = {k \in DOMAIN level : PairOf(k) # pair}
  /\ \A k \in DOMAIN level : PairOf(k) # pair => level'[k] = level[k]
  /\ {k \in changeIndex' : MarkerOf(k) # pair} = {k \in changeIndex : MarkerOf(k) # pair}

\* C11: after a del of a stored Version neither the Primary Index holds an
\* entry nor the Change Index a marker for its (identity, blockNumber), and
\* the entries and markers of all other pairs are unchanged.
C11_DelRemovesBoth ==
  [][ (op' = "del" /\ ret'.ok /\ existed')
      => /\ \A k \in DOMAIN level' : PairOf(k) # ArgPair(args')
         /\ \A k \in changeIndex' : MarkerOf(k) # ArgPair(args')
         /\ OthersUnchanged(ArgPair(args')) ]_vars

\* a del has removed a stored Version and its marker, beside another Version
\* and another marker
C11_Witness ==
  /\ op = "del" /\ ret.ok /\ existed /\ marked
  /\ level # <<>>
  /\ changeIndex # {}

\* C12 as stated: a del of a pair that has no Primary entry fails before the
\* marker is touched, so that both indexes are unchanged.
C12_AbsentDelFails ==
  [][ (op' = "del" /\ ~existed')
      => ~ret'.ok /\ level' = level /\ changeIndex' = changeIndex ]_vars

\* C12 as amended: a del of a pair that has no Primary entry does not fail;
\* it leaves the Primary Index unchanged and removes the Change marker of the
\* pair if there is one, every other marker staying.
C12_AbsentDelRemovesMarker ==
  [][ (op' = "del" /\ ~existed')
      => /\ ret'.ok
         /\ level' = level
         /\ \A k \in changeIndex' : MarkerOf(k) # ArgPair(args')
         /\ OthersUnchanged(ArgPair(args')) ]_vars

\* a del of a pair without a Primary entry has removed the marker the pair had
C12_Witness ==
  /\ op = "del" /\ ret.ok /\ ~existed /\ marked
  /\ datumToChangeKey(args.datum) \notin changeIndex

----------------------------------------------------------------------------
(* C13 -- insert of a block number of more than MAX_LENGTH digits *)

\* C13: an insert whose blockNumber has more than MAX_LENGTH digits fails
\* before any write: after the failed call neither the Primary Index nor the
\* Change Index has changed.
C13_LongInsertWritesNothing ==
  [][ (op' = "insert" /\ Len(args'.datum.blockNumber) > MAX_LENGTH)
      => /\ ~ret'.ok
         /\ level' = level
         /\ changeIndex' = changeIndex ]_vars

----------------------------------------------------------------------------
(* C14 -- getIdsChanged with toBlock < fromBlock *)

\* the last call was getIdsChanged or getIdsChanged_fill with to < from
InvertedRange ==
  /\ op \in {"getIdsChanged", "getIdsChanged_fill"}
  /\ args.to # None
  /\ NumVal(args.to) < NumVal(args.from)

\* C14 as stated: getIdsChanged and getIdsChanged_fill called with
\* toBlock < fromBlock are rejected, they do not return an empty result.
C14_InvertedRangeRejected == InvertedRange => ~ret.ok

\* C14 as amended: getIdsChanged and getIdsChanged_fill called with
\* toBlock < fromBlock are not rejected; they return the empty list,
\* whatever the Change Index holds.
C14_InvertedRangeEmpty == InvertedRange => ret.ok /\ ret.out = <<>>

\* an inverted range was asked while markers lie between its two bounds
C14_Witness ==
  /\ InvertedRange
  /\ ret.ok
  /\ \E k \in changeIndex :
       /\ NumVal(args.to) <= MarkerOf(k).block
       /\ MarkerOf(k).block <= NumVal(args.from)

----------------------------------------------------------------------------
(* C15 -- getIdsChanged_fill *)

\* the keys getIdsChanged returns for the arguments of the last call
ChangedKeys == getIdsChanged(changeIndex, args.from, args.to).out

\* C15: getIdsChanged_fill is all-or-nothing: if a key returned by
\* getIdsChanged has no Primary Index entry the whole call fails with the
\* lookup error and returns no list; otherwise it returns one
\* (identity, blockNumber, payload) per key, in the order of getIdsChanged.
C15_FillAllOrNothing ==
  op = "getIdsChanged_fill" =>
    IF \E i \in 1..Len(ChangedKeys) : ChangedKeys[i] \notin DOMAIN level
    THEN /\ ~ret.ok
         /\ ret.code = "LEVEL_NOT_FOUND"
         /\ ret.out = <<>>
    ELSE /\ ret.ok
         /\ Len(ret.out) = Len(ChangedKeys)
         /\ \A i \in 1..Len(ChangedKeys) :
              /\ ret.out[i].id = keyToDatum(ChangedKeys[i])
              /\ ret.out[i].value = level[ChangedKeys[i]]

\* a fill has failed although one of the two changed keys could be resolved
C15_Witness ==
  /\ op = "getIdsChanged_fill"
  /\ ~ret.ok
  /\ Len(ChangedKeys) = 2
  /\ \E i \in 1..2 : ChangedKeys[i] \in DOMAIN level
  /\ \E i \in 1..2 : ChangedKeys[i] \notin DOMAIN level

----------------------------------------------------------------------------
(* C16, C17 -- createChangeIndex run to completion *)

\* C16: createChangeIndex is idempotent: from any Primary Index and any
\* Change Index content, running it again in succession leaves the Change
\* Index equal, as a set, to what the first run left.
C16_RebuildIdempotent == \A i \in 2..Len(once) : once[i] = once[1]

\* a second run in succession has completed, after a first run that found
\* markers in place and added one
C16_Witness ==
  /\ Len(once) = 2
  /\ base[1].changeIndex # {}
  /\ once[1] # base[1].changeIndex

\* a run of createChangeIndex has completed
Completed == rbPc = "done"

\* every Version of the Primary Index has its marker, and no marker that
\* was there before the run is gone
MarkedAll ==
  /\ \A k \in DOMAIN level : PairOf(k) \in Markers
  /\ base[1].changeIndex \subseteq changeIndex

\* C17 as stated: a completed createChangeIndex leaves a marker for every
\* Version of the Primary Index, removes no marker that existed before it
\* started, and returns to its caller the number of Versions it marked.
C17_RebuildReturnsCount ==
  Completed => MarkedAll /\ rbOut.returned = <<Cardinality(DOMAIN level)>>

\* C17 as amended: a completed createChangeIndex leaves a marker for every
\* Version of the Primary Index and removes no marker that existed before
\* it started; the number of Versions it marked is written to the log, and
\* nothing is returned to the caller.
C17_RebuildLogsCount ==
  Completed =>
    /\ MarkedAll
    /\ rbOut.returned = <<>>
    /\ rbOut.logged = <<Cardinality(DOMAIN level)>>

\* a run has completed that found a marker without a Version and a Version
\* without a marker
C17_Witness ==
  /\ Completed
  /\ \E k \in base[1].changeIndex : MarkerOf(k) \notin PrimaryPairs
  /\ \E k \in DOMAIN level : \A c \in base[1].changeIndex : MarkerOf(c) # PairOf(k)

----------------------------------------------------------------------------
(* C18 -- an insert whose marker write fails *)

\* the Primary write of a failed insert is in place
NoRollback ==
  (op' = "insert" /\ ~ret'.ok)
    => /\ datumToKey(args'.datum) \in DOMAIN level'
       /\ level'[datumToKey(args'.datum)] = args'.data

\* the Versions of the Primary Index that have no marker
Unmarked == {k \in DOMAIN level : PairOf(k) \notin Markers}

\* after this step the Change Index holds the marker of primary key k
MarkedNext(k) == \E c \in changeIndex' : MarkerOf(c) = PairOf(k)

\* this step is a successful insert of the pair of primary key k
ReinsertOf(k) ==
  /\ op = "none" /\ op' = "insert" /\ ret'.ok
  /\ ArgPair(args') = PairOf(k)

\* this step is the iteration of createChangeIndex that reads primary key k
RebuildStepOf(k) ==
  /\ rbPc = "loop" /\ rbIter # <<>> /\ Head(rbIter) = k
  /\ rbIter' = Tail(rbIter)

\* C18 as stated: when the marker write of an insert fails after the
\* Primary write, the Primary entry stays, and no later operation creates
\* the missing marker: it appears only once a createChangeIndex has run to
\* completion, after which the pair is in both indexes.
C18_OnlyCompletedRebuildMarks ==
  [][ /\ NoRollback
      /\ \A k \in Unmarked : MarkedNext(k) => rbPc' = "done"
      /\ rbPc' = "done" => \A k \in DOMAIN level' : MarkedNext(k) ]_vars

\* C18 as amended: when the marker write of an insert fails after the
\* Primary write, the Primary entry stays; the missing marker is created
\* only by a later successful insert of the same pair or by the iteration of
\* a createChangeIndex that reads the pair, which is before that run
\* completes; after a completed createChangeIndex the pair is in both indexes.
C18_ReinsertOrRebuildStepMarks ==
  [][ /\ NoRollback
      /\ \A k \in Unmarked : MarkedNext(k) => ReinsertOf(k) \/ RebuildStepOf(k)
      /\ rbPc' = "done" => \A k \in DOMAIN level' : MarkedNext(k) ]_vars

\* a later insert of a pair whose marker write had failed has written the
\* marker, with no createChangeIndex
C18_Witness ==
  /\ op = "insert" /\ ret.ok
  /\ existed /\ ~marked
  /\ datumToChangeKey(args.datum) \in changeIndex
  /\ rbPc = "idle"

----------------------------------------------------------------------------
(* C19 -- createChangeIndex interleaved, abandoned and run again *)

\* the identities of a list of primary keys
IdsOf(keys) == {IdOf(keyToDatum(keys[i])) : i \in 1..Len(keys)}

\* the markers of a set of primary keys
MarksOf(keys) == {datumToChangeKey(keyToDatum(k)) : k \in keys}

\* C19: while a createChangeIndex runs, with no del beside it, the set of
\* markers only grows from one step to the next; a getIdsChanged between
\* its iterations, or after the run was abandoned at any iteration, sees a
\* superset of the markers that were there before the run started; and a run
\* started again from the beginning, with no cleanup, ends with the Change
\* Index an unabandoned run ends with: the markers from before together with
\* one marker per Version.
C19_RebuildOnlyGrows ==
  [][ base' # <<>> =>
        /\ base # <<>> => changeIndex \subseteq changeIndex'
        /\ base'[1].changeIndex \subseteq changeIndex'
        /\ (op = "none" /\ op' = "getIdsChanged")
             => /\ ret'.ok
                /\ IdsOf(getIdsChanged(base'[1].changeIndex, args'.from, args'.to).out)
                     \subseteq IdsOf(ret'.out)
        /\ rbPc' = "done"
             => changeIndex' = base'[1].changeIndex \cup MarksOf(DOMAIN level') ]_vars

\* a run that was abandoned and started again has completed, having added
\* markers to those it found, and a getIdsChanged issued meanwhile returned
\* changed keys
C19_Witness ==
  /\ rbPc = "done"
  /\ base[1].interrupted
  /\ base[1].changeIndex # {}
  /\ changeIndex # base[1].changeIndex
  /\ op = "getIdsChanged" /\ ret.ok /\ ret.out # <<>>

----------------------------------------------------------------------------
(* C20 -- encodeNumber, decodeNumber *)

\* a decimal string with no leading zero, "0" included
Canonical(num) == Len(num) >= 1 /\ (Len(num) > 1 => num[1] # 48)

\* a < b as numbers
NumLess(a, b) ==
  \/ NumVal(HiPart(a)) < NumVal(HiPart(b))
  \/ NumVal(HiPart(a)) = NumVal(HiPart(b)) /\ NumVal(LoPart(a)) < NumVal(LoPart(b))

\* C20: decodeNumber(encodeNumber(n)) = n for every canonical decimal string
\* n of 1 to 10 digits, "0" included; encodeNumber(n) has exactly 10
\* characters and numeric order of the inputs is byte order of the codes;
\* encodeNumber fails for every input of more than 10 digits.
C20_CodecRoundTrip ==
  /\ op = "encodeNumber" =>
       /\ ret[1].ok = (Len(args.from) <= 10)
       /\ ret[2].ok = (Len(args.to) <= 10)
       /\ ret[1].ok => Len(ret[1].out) = 10
       /\ ret[2].ok => Len(ret[2].out) = 10
       /\ (ret[1].ok /\ ret[2].ok /\ Canonical(args.from) /\ Canonical(args.to))
            => (NumLess(args.from, args.to) = LexLT(ret[1].out, ret[2].out))
  /\ op = "decodeNumber" =>
       /\ Canonical(args.from) => ret[1].out = args.from
       /\ Canonical(args.to) => ret[2].out = args.to

\* the code of a ten-digit number beyond 2^31 and the code of "0" have been
\* decoded
C20_Witness ==
  /\ op = "decodeNumber"
  /\ args.from = S_2147483648
  /\ args.to = S_0
  /\ ret[1].out = S_2147483648
  /\ ret[2].out = S_0

----------------------------------------------------------------------------
(* C21 -- the store handles *)

\* C21: a close releases both store handles and cannot be undone, and every
\* operation called after it fails with the error of a closed store and
\* leaves both indexes as they were.
C21_ClosedFailsEverything ==
  [][ /\ status' # BothOpen => status' = BothClosed
      /\ status # BothOpen => status' = status
      /\ (status # BothOpen /\ op = "none" /\ op' # "none")
           => /\ ~ret'.ok /\ ret'.code = "LEVEL_DATABASE_NOT_OPEN"
              /\ level' = level /\ changeIndex' = changeIndex
      /\ (status # BothOpen /\ rbPc = "idle" /\ rbPc' # "idle")
           => rbPc' = "threw" /\ level' = level /\ changeIndex' = changeIndex ]_vars

----------------------------------------------------------------------------
(* C22 -- the order of the two writes of insert *)

\* C22: insert writes the Primary entry before the Change marker, so in
\* every state of a run made of inserts and createChangeIndex only, between
\* the two writes of an insert and after a failed marker write included,
\* every Change marker has its Primary entry.
C22_MarkerHasPrimary == \A m \in changeIndex : MarkerOf(m) \in PrimaryPairs

\* an insert is between its two writes, its Primary entry without a marker,
\* while a createChangeIndex is running and another pair has its marker
C22_Witness ==
  /\ \E c \in Callers :
       /\ calls[c].op = "insert" /\ calls[c].pc = "marker"
       /\ datumToKey(calls[c].datum) \in DOMAIN level
       /\ datumToChangeKey(calls[c].datum) \notin changeIndex
  /\ changeIndex # {}
  /\ rbPc = "loop"

----------------------------------------------------------------------------
(* C23 -- block numbers of one digit count *)

\* every Version of identity i has a block number with as many digits as
\* the cutoff
SameDigits(i, cutoff) ==
  \A k \in VersionsOf(i) : Len(keyToDatum(k).blockNumber) = Len(cutoff)

\* the entries a getMany has yielded for identity i
YieldedFor(i) == {n \in 1..Len(ret.out) : IdOf(ret.out[n].id) = i}

\* C23: when all the stored block numbers of an identity and the cutoff
\* have the same number of digits, getOne and getMany select the Version of
\* the identity with the numerically greatest block number <= cutoff.
C23_SameDigitsSelectsGreatest ==
  /\ (op = "getOne" /\ args.datum.blockNumber # None
        /\ SameDigits(IdOf(args.datum), args.datum.blockNumber))
     => LET S == UpTo(IdOf(args.datum), args.datum.blockNumber)
        IN  IF S = {}
            THEN ~ret.ok /\ ret.code = "LEVEL_NOT_FOUND"
            ELSE ret.ok /\ ret.id = keyToDatum(Highest(S))
                        /\ ret.value = level[Highest(S)]
  /\ (GetManyDone /\ args.datum.blockNumber # None)
     => \A i \in StoredIdentities :
          (Under(i, args.datum) /\ SameDigits(i, args.datum.blockNumber))
          => LET S == UpTo(i, args.datum.blockNumber)
             IN  IF S = {}
                 THEN YieldedFor(i) = {}
                 ELSE /\ Cardinality(YieldedFor(i)) = 1
                      /\ \A n \in YieldedFor(i) : ret.out[n] = Returned(Highest(S))

\* a getMany with a cutoff of two digits has yielded, for an identity with
\* Versions of two digits on both sides of the cutoff, the one at the
\* cutoff, and has yielded nothing for an identity whose only Version, of
\* one digit, lies below the cutoff
C23_Witness ==
  /\ GetManyDone
  /\ args.datum.blockNumber = S_10
  /\ \E i \in StoredIdentities, j \in StoredIdentities :
       /\ Under(i, args.datum) /\ Under(j, args.datum)
       /\ {BlockOf(k) : k \in VersionsOf(i)} = {10, 95}
       /\ \E n \in YieldedFor(i) : BlockOf(datumToKey(ret.out[n].id)) = 10
       /\ {BlockOf(k) : k \in VersionsOf(j)} = {9}
       /\ YieldedFor(j) = {}

----------------------------------------------------------------------------
(* C25 -- getMany over a prefix without entries *)

\* the last call was a getMany, now ended, over a prefix under which the
\* Primary Index holds no entry
GetManyOverNothing == GetManyDone /\ ~SomeUnder(args.datum)

\* C25 as stated: getMany over a prefix under which the Primary Index holds
\* no entry completes as an empty sequence without error.
C25_EmptyPrefixCompletes == GetManyOverNothing => ret.ok /\ ret.out = <<>>

\* C25 as amended: getMany over a prefix under which the Primary Index
\* holds no entry raises an error at the first advance and yields nothing;
\* only a prefix that holds entries, all of them above the cutoff, completes
\* as an empty sequence without error.
C25_EmptyPrefixRaises ==
  /\ GetManyOverNothing => ~ret.ok /\ ret.code = "NO_ITEMS" /\ ret.out = <<>>
  /\ (GetManyDone /\ SomeUnder(args.datum)) => ret.ok

\* a getMany has raised over a prefix without entries while the Primary
\* Index holds entries under another prefix
C25_Witness ==
  /\ GetManyOverNothing
  /\ ~ret.ok
  /\ level # <<>>

----------------------------------------------------------------------------
(* C24 -- an insert and a del of the same pair beside each other *)

\* one caller has completed an insert and the other a del of the same
\* datum, and no call is in flight
RaceOver(datum) ==
  /\ \A c \in Callers : calls[c].pc = "done" /\ calls[c].datum = datum
  /\ \E c \in Callers : calls[c].op = "insert"
  /\ \E c \in Callers : calls[c].op = "del"

\* C24: for every interleaving of an insert and a del of the same
\* (identity, blockNumber), each doing its Primary step and then its Change
\* step, the state when both have completed has the Primary entry if and
\* only if it has the Change marker.
C24_RaceEndsConsistent ==
  \A datum \in RebuildDatums :
    RaceOver(datum)
    => (datumToKey(datum) \in DOMAIN level
          <=> datumToChangeKey(datum) \in changeIndex)

====
